---- MODULE Spec2Model ----
(***************************************************************************)
(* LisanAI: the conversation mode (ConversationalAI), its audio playback   *)
(* sequencer and transcript assembler, the video analysis flow with its    *)
(* frame sampler (VideoAnalysis), the speech synthesis flow (TextToSpeech) *)
(* and the language provider, as state machines.                           *)
(*                                                                         *)
(* Times of the audio clock are whole ticks.  Times of the video element   *)
(* are tenths of a second, so that a duration of 3.4 s is 34.              *)
(***************************************************************************)
EXTENDS Integers, Sequences, FiniteSets, TLC

\* ---------------------------------------------------------------- bounds
MaxSessions  == 2    \* calls of startConversation
MaxStops     == 2    \* calls of stopConversation
MaxMsgs      == 3    \* messages delivered to onmessage
MaxClock     == 2    \* readings of AudioContext.currentTime go up to this
MaxDur       == 2    \* longest decoded audio buffer, in ticks
MaxDuration  == 41   \* longest video, in tenths of a second
\* The playback specification: one conversation, stopped at most once.
PlaySessions == 1
PlayStops    == 1
\* The restart specification: a conversation, stopped, and a second one.
RestartStops == 1
RestartMsgs  == 2
\* The transcript specification: as the restart specification, text messages.
TextStops    == 1
TextMsgs     == 3
\* The lifecycle specification: two conversations, two stopConversation calls.
LifeStops    == 2
\* The synthesis specification.
MaxPlays     == 3    \* sources made by handlePlayPause
MaxGenerates == 2    \* remote calls of handleGenerateSpeech
\* The analysis specification.
MaxAnalyses  == 2    \* remote calls of handleAnalyze

Max(a, b) == IF a >= b THEN a ELSE b
Min(a, b) == IF a <= b THEN a ELSE b

Sessions == 1..MaxSessions
StopIds  == 1..MaxStops

\* ------------------------------------------------------------- variables
VARIABLES
    \* React state of ConversationalAI
    isRecording, status, transcriptions,
    \* refs of ConversationalAI
    sessionPromiseRef, audioContextRef, outputAudioContextRef,
    scriptProcessorRef, nextStartTimeRef, audioSourcesRef,
    transcriptionsRef, lastAuthorRef,
    \* objects the refs point to, by the startConversation call that made them
    ctxIn, ctxOut, clock, sess,
    \* running async calls
    startPc, stops, msgs,
    \* AudioBufferSourceNodes, one per audio message
    src,
    \* history of the run (read by the properties only)
    last, fresh, frags, turnDone,
    \* VideoAnalysis.extractFrames
    video, currentTime, frames, fpc,
    \* React state of VideoAnalysis, the position of handleAnalyze and the
    \* number of generateContent calls it made
    videoFile, prompt, analysis, videoIsLoading, videoError, progress, apc, calls,
    \* React state and refs of TextToSpeech, its sources, the position of
    \* handleGenerateSpeech and the number of generateContent calls it made
    ttsText, ttsIsLoading, isPlaying, ttsError,
    ttsAudioContextRef, audioSourceRef, audioBufferRef,
    ttsSrc, gpc, ttsCalls,
    \* LanguageProvider
    language, dir,
    \* history: the sessions whose onerror has run
    errors

reactVars == <<isRecording, status, transcriptions>>
refVars   == <<sessionPromiseRef, audioContextRef, outputAudioContextRef,
               scriptProcessorRef>>
playVars  == <<nextStartTimeRef, audioSourcesRef, src, last, fresh>>
textVars  == <<transcriptionsRef, lastAuthorRef, frags, turnDone>>
objVars   == <<ctxIn, ctxOut, clock, sess>>
procVars  == <<startPc, stops, msgs>>
frameVars == <<video, currentTime, frames, fpc>>
analysisVars == <<videoFile, prompt, analysis, videoIsLoading, videoError,
                  progress, apc, calls>>
ttsVars   == <<ttsText, ttsIsLoading, isPlaying, ttsError, ttsAudioContextRef,
               audioSourceRef, audioBufferRef, ttsSrc, gpc, ttsCalls>>
langVars  == <<language, dir>>
appVars   == <<analysisVars, ttsVars, langVars, errors>>

vars == <<reactVars, refVars, playVars, textVars, objVars, procVars, frameVars, appVars>>

\* ---------------------------------------------------------- transcript
\* A text is a sequence of characters; "" is <<>>.
Authors == {"user", "model"}
Texts   == {<<>>, <<"a">>, <<"b">>}

\* A transcription field of a message: absent (<<>>) or present with a text.
Transcriptions == {<<>>} \cup {<<t>> : t \in Texts}

\* One `if (message.serverContent?.xTranscription)` block of onmessage,
\* on the pair (transcriptionsRef.current, lastAuthorRef.current).
\* `=` in place of `+=`: the fragment replaces the utterance's text.
PushTextReplace(old, text) == text

\* The fragment put in front of the utterance's text.
PushTextFront(old, text) == text \o old

\* .text += text
PushText(old, text) == old \o text

AddFragment(st, author, field) ==
    IF field = <<>> \/ field[1] = <<>>
    THEN st
    ELSE LET tr1 == IF st.la # author
                    THEN Append(st.tr, [author |-> author, text |-> <<>>])
                    ELSE st.tr
         IN  [tr |-> [tr1 EXCEPT ![Len(tr1)].text = PushText(@, field[1])],
              la |-> author,
              updated |-> TRUE]

\* A turnComplete that leaves the speaker tracking alone.
TurnCompleteKept(la, tc) == la

\* if (message.serverContent?.turnComplete) lastAuthorRef.current = null
TurnComplete(la, tc) == IF tc THEN "null" ELSE la

\* The transcript blocks of onmessage, in the order of the code.
Assemble(tr, la, m) ==
    LET s0 == [tr |-> tr, la |-> la, updated |-> FALSE]
        s1 == AddFragment(s0, "user", m.inputTranscription)
        s2 == AddFragment(s1, "model", m.outputTranscription)
    IN  [s2 EXCEPT !.la = TurnComplete(s2.la, m.turnComplete)]

\* The non-empty fragments a message carries, in the order onmessage reads them.
FragmentsOf(m) ==
    (IF m.inputTranscription # <<>> /\ m.inputTranscription[1] # <<>>
     THEN <<[author |-> "user", text |-> m.inputTranscription[1]]>> ELSE <<>>)
    \o
    (IF m.outputTranscription # <<>> /\ m.outputTranscription[1] # <<>>
     THEN <<[author |-> "model", text |-> m.outputTranscription[1]]>> ELSE <<>>)


\* ------------------------------------------------------------- messages
\* A LiveServerMessage, by the fields onmessage reads.  audio is the duration
\* of the buffer the inline data decodes to, 0 when the message has no audio.
AudioMessages ==
    [inputTranscription : {<<>>}, outputTranscription : {<<>>},
     turnComplete : {FALSE}, audio : 0..MaxDur, interrupted : BOOLEAN]

TextMessages ==
    [inputTranscription : Transcriptions, outputTranscription : Transcriptions,
     turnComplete : BOOLEAN, audio : {0}, interrupted : {FALSE}]

\* decodeAudioData(decode(base64Audio), ctx, 24000, 1): the decoded buffer,
\* of which the scheduler reads the duration only.
decodeAudioData(payload) == [duration |-> payload]

Handles == 1..MaxMsgs

NoSource == [state |-> "none", start |-> 0, end |-> 0, ctx |-> 0]

\* ------------------------------------------------------ LanguageProvider
\* type Language = 'en' | 'ar'
Languages == {"en", "ar"}

\* useState<Language>('ar')
DefaultLanguage == "ar"

\* A direction flag that does not follow the language.
DirLtr(l) == "ltr"

\* const dir = language === 'ar' ? 'rtl' : 'ltr'
Dir(l) == IF l = "ar" THEN "rtl" ELSE "ltr"

\* ------------------------------------------------------------ text inputs
\* What a text area holds: a sequence of characters, " " being white space.
InputTexts == {<<>>, <<" ">>, <<" ", " ">>, <<"a">>, <<" ", "a", " ">>}

IsSpace(c) == c = " "

RECURSIVE TrimStart(_)
TrimStart(s) == IF s # <<>> /\ IsSpace(Head(s)) THEN TrimStart(Tail(s)) ELSE s

RECURSIVE TrimEnd(_)
TrimEnd(s) ==
    IF s # <<>> /\ IsSpace(s[Len(s)]) THEN TrimEnd(SubSeq(s, 1, Len(s) - 1)) ELSE s

\* String.prototype.trim
Trim(s) == TrimEnd(TrimStart(s))

\* ------------------------------------------------------------------ Init
InitConversation ==
    /\ isRecording = FALSE
    /\ status = "idle"
    /\ transcriptions = <<>>
    /\ sessionPromiseRef = 0
    /\ audioContextRef = 0
    /\ outputAudioContextRef = 0
    /\ scriptProcessorRef = 0
    /\ nextStartTimeRef = 0
    /\ audioSourcesRef = {}
    /\ transcriptionsRef = <<>>
    /\ lastAuthorRef = "null"
    /\ ctxIn = [s \in Sessions |-> "none"]
    /\ ctxOut = [s \in Sessions |-> "none"]
    /\ clock = [s \in Sessions |-> 0]
    /\ sess = [s \in Sessions |-> "none"]
    /\ startPc = [s \in Sessions |-> "idle"]
    /\ stops = [p \in StopIds |-> [pc |-> "idle", c |-> 0]]
    /\ msgs = <<>>
    /\ src = [i \in Handles |-> NoSource]
    /\ last = <<>>
    /\ fresh = FALSE
    /\ frags = <<>>
    /\ turnDone = "never"
    /\ errors = {}

InitFramesIdle ==
    /\ video = [duration |-> 0, context |-> TRUE, blob |-> TRUE]
    /\ currentTime = 0
    /\ frames = <<>>
    /\ fpc = "idle"

\* The useState and useRef initial values of VideoAnalysis.
InitAnalysis ==
    /\ videoFile = <<>>
    /\ prompt = <<>>
    /\ analysis = 0
    /\ videoIsLoading = FALSE
    /\ videoError = "null"
    /\ progress = "none"
    /\ apc = "idle"
    /\ calls = 0

PlayHandles == 1..MaxPlays

\* The useState and useRef initial values of TextToSpeech.
InitSpeech ==
    /\ ttsText = <<>>
    /\ ttsIsLoading = FALSE
    /\ isPlaying = FALSE
    /\ ttsError = "null"
    /\ ttsAudioContextRef = "null"
    /\ audioSourceRef = 0
    /\ audioBufferRef = 0
    /\ ttsSrc = [i \in PlayHandles |-> "none"]
    /\ gpc = "idle"
    /\ ttsCalls = 0

InitLanguage ==
    /\ language = DefaultLanguage
    /\ dir = Dir(language)

InitApp == InitAnalysis /\ InitSpeech /\ InitLanguage

Init == InitConversation /\ InitFramesIdle /\ InitApp

\* ------------------------------------------------- the status useEffect
\* useEffect(() => { if (!isRecording) setStatus(t('status_idle')) },
\* [isRecording, t]): it runs after the render in which isRecording changed.
StatusEffect(newStatus, newRecording) ==
    IF isRecording /\ ~newRecording THEN "idle" ELSE newStatus

\* ------------------------------------------------------ startConversation
\* The synchronous head of startConversation, up to await getUserMedia.
StartConversation(s) ==
    /\ ~isRecording
    /\ startPc[s] = "idle"
    /\ \A r \in Sessions : r < s => startPc[r] # "idle"
    /\ isRecording' = TRUE
    /\ status' = "connecting"
    /\ transcriptions' = <<>>
    /\ transcriptionsRef' = <<>>
    /\ lastAuthorRef' = "null"
    /\ frags' = <<>>
    /\ turnDone' = "never"
    /\ startPc' = [startPc EXCEPT ![s] = "awaitMic"]
    /\ UNCHANGED <<refVars, playVars, objVars, stops, msgs, frameVars, appVars>>

\* nextStartTimeRef.current = 0 of startConversation.
StartCursor == 0

\* getUserMedia resolved: both AudioContexts are made and ai.live.connect
\* is called.
MicGranted(s) ==
    /\ startPc[s] = "awaitMic"
    /\ startPc' = [startPc EXCEPT ![s] = "done"]
    /\ ctxIn' = [ctxIn EXCEPT ![s] = "running"]
    /\ ctxOut' = [ctxOut EXCEPT ![s] = "running"]
    /\ audioContextRef' = s
    /\ outputAudioContextRef' = s
    /\ nextStartTimeRef' = StartCursor
    /\ sessionPromiseRef' = s
    /\ sess' = [sess EXCEPT ![s] = "connecting"]
    /\ last' = <<>>
    /\ UNCHANGED <<reactVars, scriptProcessorRef, audioSourcesRef, src, fresh,
                   textVars, clock, stops, msgs, frameVars, appVars>>

\* getUserMedia rejected: the catch block.
MicDenied(s) ==
    /\ startPc[s] = "awaitMic"
    /\ startPc' = [startPc EXCEPT ![s] = "failed"]
    /\ isRecording' = FALSE
    /\ status' = StatusEffect("mic_error", FALSE)
    /\ UNCHANGED <<transcriptions, refVars, playVars, textVars, objVars,
                   stops, msgs, frameVars, appVars>>

\* callbacks.onopen
OnOpen(s) ==
    /\ sess[s] = "connecting"
    /\ sess' = [sess EXCEPT ![s] = "open"]
    /\ status' = "connected"
    /\ scriptProcessorRef' = IF audioContextRef # 0 /\ ctxIn[audioContextRef] = "running"
                             THEN audioContextRef ELSE scriptProcessorRef
    /\ UNCHANGED <<isRecording, transcriptions, sessionPromiseRef, audioContextRef,
                   outputAudioContextRef, playVars, textVars, ctxIn, ctxOut, clock,
                   procVars, frameVars, appVars>>

\* The promise of ai.live.connect rejects: no callback runs.
ConnectFails(s) ==
    /\ sess[s] = "connecting"
    /\ sess' = [sess EXCEPT ![s] = "failed"]
    /\ UNCHANGED <<reactVars, refVars, playVars, textVars, ctxIn, ctxOut, clock,
                   procVars, frameVars, appVars>>

\* callbacks.onclose
OnClose(s) ==
    /\ sess[s] \in {"open", "closing"}
    /\ sess' = [sess EXCEPT ![s] = "closed"]
    /\ status' = "closed"
    /\ UNCHANGED <<isRecording, transcriptions, refVars, playVars, textVars,
                   ctxIn, ctxOut, clock, procVars, frameVars, appVars>>

\* The output context's clock advances while the context runs.
Tick(c) ==
    /\ ctxOut[c] = "running"
    /\ clock[c] < MaxClock
    /\ clock' = [clock EXCEPT ![c] = @ + 1]
    /\ UNCHANGED <<reactVars, refVars, playVars, textVars, ctxIn, ctxOut, sess,
                   procVars, frameVars, appVars>>


\* ------------------------------------------------------------- onmessage
\* source.stop() for every source of audioSourcesRef, then clear().
StopAndClear(sources, set) ==
    [srcs |-> [i \in Handles |->
                 IF i \in set
                 THEN [sources[i] EXCEPT !.state = "stopped"]
                 ELSE sources[i]],
     set  |-> {}]

\* The interrupted block without its reset of the cursor.
InterruptCursorKept == nextStartTimeRef

\* nextStartTimeRef.current = 0 of the interrupted block.
InterruptCursor == 0

\* if (message.serverContent?.interrupted) { ... }, on the playback state
\* pb = [srcs, set, nst].
InterruptClause(pb, interrupted) ==
    IF interrupted
    THEN LET c == StopAndClear(pb.srcs, pb.set)
         IN  [srcs |-> c.srcs, set |-> c.set, nst |-> InterruptCursor]
    ELSE pb

\* The start time without the cursor: every chunk starts at once.
StartTimeNow(now, nst) == now

\* const startTime = Math.max(currentTime, nextStartTimeRef.current)
StartTime(now, nst) == Max(now, nst)

\* The cursor without the start time: the duration alone.
NextStartDuration(startTime, buffer) == buffer.duration

\* nextStartTimeRef.current = startTime + audioBuffer.duration
NextStart(startTime, buffer) == startTime + buffer.duration

\* The block after the await of decodeAudioData: the source is made on the
\* context outputAudioContextRef points to now, started, and added to the set.
ScheduleChunk(pb, i, buffer) ==
    LET c         == outputAudioContextRef
        now       == clock[c]
        startTime == StartTime(now, pb.nst)
    IN  [srcs |-> [pb.srcs EXCEPT ![i] =
                     [state |-> "playing", start |-> startTime,
                      end |-> startTime + buffer.duration, ctx |-> c]],
         set  |-> pb.set \cup {i},
         nst  |-> NextStart(startTime, buffer)]

Playback == [srcs |-> src, set |-> audioSourcesRef, nst |-> nextStartTimeRef]

\* The history of the run: last is the chunk scheduled last since the cursor
\* was last reset (<<start, end>>, or <<>>); fresh holds from the handling of an
\* interrupted message to the next scheduling of a chunk.
\* The history of fragments: which utterance each one was written to, and
\* whether a turnComplete was handled since the fragment before it.
Logged(m, tr0, la0) ==
    LET s0 == [tr |-> tr0, la |-> la0, updated |-> FALSE]
        s1 == AddFragment(s0, "user", m.inputTranscription)
        s2 == AddFragment(s1, "model", m.outputTranscription)
        fs == FragmentsOf(m)
        u  == [k \in 1..Len(fs) |->
                 IF fs[k].author = "user" THEN Len(s1.tr) ELSE Len(s2.tr)]
    IN  [k \in 1..Len(fs) |->
           [author |-> fs[k].author, text |-> fs[k].text, utt |-> u[k],
            afterTurn |-> (k = 1 /\ turnDone = "pending")]]

\* callbacks.onmessage, from its first line to the await of decodeAudioData,
\* or to its end when the message carries no audio.
OnMessage(s, m, max) ==
    /\ sess[s] = "open"
    /\ Len(msgs) < max
    /\ LET a == Assemble(transcriptionsRef, lastAuthorRef, m)
           i == Len(msgs) + 1
           suspends == m.audio # 0 /\ outputAudioContextRef # 0
           pb == IF suspends THEN Playback ELSE InterruptClause(Playback, m.interrupted)
       IN  /\ transcriptionsRef' = a.tr
           /\ lastAuthorRef' = a.la
           /\ transcriptions' = IF a.updated THEN a.tr ELSE transcriptions
           /\ frags' = frags \o Logged(m, transcriptionsRef, lastAuthorRef)
           /\ turnDone' = IF m.turnComplete THEN "pending"
                          ELSE IF FragmentsOf(m) # <<>> /\ turnDone = "pending"
                               THEN "before" ELSE turnDone
           /\ msgs' = Append(msgs, [audio |-> m.audio, interrupted |-> m.interrupted,
                                    pc |-> IF suspends THEN "decode" ELSE "done"])
           /\ src' = pb.srcs
           /\ audioSourcesRef' = pb.set
           /\ nextStartTimeRef' = pb.nst
           /\ last' = IF ~suspends /\ m.interrupted THEN <<>> ELSE last
           /\ fresh' = IF ~suspends /\ m.interrupted THEN TRUE ELSE fresh
    /\ UNCHANGED <<isRecording, status, refVars, objVars, startPc, stops, frameVars, appVars>>

\* callbacks.onmessage from the resolution of decodeAudioData to its end.
ResumeAfterDecode(i) ==
    /\ i \in 1..Len(msgs)
    /\ msgs[i].pc = "decode"
    /\ LET p1 == ScheduleChunk(Playback, i, decodeAudioData(msgs[i].audio))
           p2 == InterruptClause(p1, msgs[i].interrupted)
       IN  /\ src' = p2.srcs
           /\ audioSourcesRef' = p2.set
           /\ nextStartTimeRef' = p2.nst
    /\ msgs' = [msgs EXCEPT ![i].pc = "done"]
    /\ last' = IF msgs[i].interrupted THEN <<>> ELSE <<src'[i].start, src'[i].end>>
    /\ fresh' = msgs[i].interrupted
    /\ UNCHANGED <<reactVars, refVars, textVars, objVars, startPc, stops, frameVars, appVars>>

\* An onended that empties the set instead of deleting its own source.
DeleteAll(set, i) == {}

\* source.onended = () => audioSourcesRef.current.delete(source)
Delete(set, i) == set \ {i}

\* The ended event of a source: its buffer has played to the end on a running
\* context, or stop() was called on it.
OnEnded(i) ==
    /\ \/ /\ src[i].state = "playing"
          /\ ctxOut[src[i].ctx] = "running"
          /\ clock[src[i].ctx] >= src[i].end
       \/ src[i].state = "stopped"
    /\ audioSourcesRef' = Delete(audioSourcesRef, i)
    /\ src' = [src EXCEPT ![i].state = "ended"]
    /\ UNCHANGED <<reactVars, refVars, nextStartTimeRef, last, fresh, textVars,
                   objVars, procVars, frameVars, appVars>>


\* -------------------------------------------------------- stopConversation
\* The state stopConversation works on, with the call's own position.
StopState(pc, c) ==
    [ctxIn |-> ctxIn, ctxOut |-> ctxOut, sess |-> sess,
     sessionPromiseRef |-> sessionPromiseRef,
     srcs |-> src, set |-> audioSourcesRef, pc |-> pc, c |-> c]

\* for (const source of audioSourcesRef.current.values()) source.stop();
\* audioSourcesRef.current.clear()
StopSources(st) ==
    LET c == StopAndClear(st.srcs, st.set)
    IN  [st EXCEPT !.srcs = c.srcs, !.set = c.set, !.pc = "done", !.c = 0]

\* if (sessionPromiseRef.current) { ... await sessionPromiseRef.current ... }
StopSession(st) ==
    IF st.sessionPromiseRef # 0
    THEN [st EXCEPT !.pc = "session", !.c = st.sessionPromiseRef]
    ELSE StopSources(st)

\* if (outputAudioContextRef.current && state !== 'closed') await close()
StopOutput(st) ==
    IF outputAudioContextRef # 0 /\ st.ctxOut[outputAudioContextRef] # "closed"
    THEN [st EXCEPT !.ctxOut[outputAudioContextRef] = "closing",
                    !.pc = "closeOut", !.c = outputAudioContextRef]
    ELSE StopSession(st)

\* if (audioContextRef.current && state !== 'closed') await close()
StopInput(st) ==
    IF audioContextRef # 0 /\ st.ctxIn[audioContextRef] # "closed"
    THEN [st EXCEPT !.ctxIn[audioContextRef] = "closing",
                    !.pc = "closeIn", !.c = audioContextRef]
    ELSE StopOutput(st)

\* session.close() on the session the awaited promise resolved to; a rejected
\* promise lands in the catch block.  Then sessionPromiseRef.current = null.
CloseSession(st) ==
    [st EXCEPT !.sess[st.c] = IF @ = "open" THEN "closing" ELSE @,
               !.sessionPromiseRef = 0]

\* The variables a step of stopConversation writes, from the state it reached.
StopWrites(p, st) ==
    /\ ctxIn' = st.ctxIn
    /\ ctxOut' = st.ctxOut
    /\ sess' = st.sess
    /\ sessionPromiseRef' = st.sessionPromiseRef
    /\ src' = st.srcs
    /\ audioSourcesRef' = st.set
    /\ stops' = [stops EXCEPT ![p] = [pc |-> st.pc, c |-> st.c]]

\* stopConversation from its first line to its first await (or to its end).
StopCall(p) ==
    /\ stops[p].pc = "idle"
    /\ \A q \in StopIds : q < p => stops[q].pc # "idle"
    /\ isRecording' = FALSE
    /\ status' = "idle"
    /\ scriptProcessorRef' = 0
    /\ StopWrites(p, StopInput(StopState("run", 0)))
    /\ UNCHANGED <<transcriptions, audioContextRef, outputAudioContextRef,
                   nextStartTimeRef, last, fresh, textVars, clock, startPc, msgs,
                   frameVars>>

\* The button while isRecording, and the language effect while isRecording.
StopConversation(p) ==
    /\ isRecording
    /\ StopCall(p)
    /\ UNCHANGED appVars

\* callbacks.onerror: setStatus(error), then stopConversation().
OnError(s, p) ==
    /\ sess[s] = "open"
    /\ StopCall(p)
    /\ errors' = errors \cup {s}
    /\ UNCHANGED <<analysisVars, ttsVars, langVars>>

\* stopConversation resumes after one of its awaits.
StopResume(p) ==
    /\ \/ /\ stops[p].pc = "closeIn"
          /\ StopWrites(p, StopOutput(
                 [StopState("run", 0) EXCEPT !.ctxIn[stops[p].c] = "closed"]))
       \/ /\ stops[p].pc = "closeOut"
          /\ StopWrites(p, StopSession(
                 [StopState("run", 0) EXCEPT !.ctxOut[stops[p].c] = "closed"]))
       \/ /\ stops[p].pc = "session"
          /\ sess[stops[p].c] # "connecting"
          /\ StopWrites(p, StopSources(CloseSession(StopState("run", stops[p].c))))
    /\ UNCHANGED <<reactVars, audioContextRef, outputAudioContextRef,
                   scriptProcessorRef, nextStartTimeRef, last, fresh, textVars,
                   clock, startPc, msgs, frameVars, appVars>>

\* A click on a language button of App: setLanguage(l).  A new language gives a
\* new t, so the status effect ([isRecording, t]) sets the idle status when no
\* conversation is recording, and the language effect ([language]) calls
\* stopConversation when one is.  The default texts the other two components
\* take from the translations are not part of the model.
SetLanguage(l, p) ==
    /\ language' = l
    /\ dir' = Dir(l)
    /\ IF l = language
       THEN UNCHANGED <<reactVars, refVars, playVars, textVars, objVars, procVars,
                        frameVars>>
       ELSE IF isRecording
       THEN StopCall(p)
       ELSE /\ status' = "idle"
            /\ UNCHANGED <<isRecording, transcriptions, refVars, playVars, textVars,
                           objVars, procVars, frameVars>>
    /\ UNCHANGED <<analysisVars, ttsVars, errors>>

\* ------------------------------------------------------------------ Next
\* A conversation with the sessions S, the stopConversation calls P and at
\* most n messages drawn from M.
NextAudio(S, P, M, n) ==
    \/ \E s \in S : StartConversation(s)
    \/ \E s \in S : MicGranted(s)
    \/ \E s \in S : OnOpen(s)
    \/ \E s \in S, m \in M : OnMessage(s, m, n)
    \/ \E i \in Handles : ResumeAfterDecode(i)
    \/ \E i \in Handles : OnEnded(i)
    \/ \E c \in S : Tick(c)
    \/ \E p \in P : StopConversation(p)
    \/ \E p \in P : StopResume(p)

\* Messages that carry audio or the interrupted marker.
PlayMessages == {m \in AudioMessages : m.audio # 0 \/ m.interrupted}

\* The playback sequencer in one conversation.
Next == NextAudio(1..PlaySessions, 1..PlayStops, PlayMessages, MaxMsgs)

Spec == Init /\ [][Next]_vars

\* The playback sequencer across a stop and a second startConversation.
NextRestart == NextAudio(Sessions, 1..RestartStops, PlayMessages, RestartMsgs)

SpecRestart == Init /\ [][NextRestart]_vars

\* The transcript assembler: messages carry text and turnComplete only, so no
\* handler suspends and no source is made.
NextTranscript ==
    \/ \E s \in Sessions : StartConversation(s)
    \/ \E s \in Sessions : MicGranted(s)
    \/ \E s \in Sessions : OnOpen(s)
    \/ \E s \in Sessions, m \in TextMessages : OnMessage(s, m, TextMsgs)
    \/ \E p \in 1..TextStops : StopConversation(p)
    \/ \E p \in 1..TextStops : StopResume(p)

SpecTranscript == Init /\ [][NextTranscript]_vars

\* The life cycle of conversations, with no message: the button, the language
\* buttons, the microphone and the callbacks of the remote session.
NextLifecycle ==
    \/ \E s \in Sessions : StartConversation(s)
    \/ \E s \in Sessions : MicGranted(s)
    \/ \E s \in Sessions : MicDenied(s)
    \/ \E s \in Sessions : OnOpen(s)
    \/ \E s \in Sessions : ConnectFails(s)
    \/ \E s \in Sessions : OnClose(s)
    \/ \E s \in Sessions, p \in 1..LifeStops : OnError(s, p)
    \/ \E p \in 1..LifeStops : StopConversation(p)
    \/ \E p \in 1..LifeStops : StopResume(p)
    \/ \E l \in Languages, p \in 1..LifeStops : SetLanguage(l, p)

SpecLifecycle == Init /\ [][NextLifecycle]_vars


\* ------------------------------------------------- VideoAnalysis.extractFrames
\* A loaded video: its duration in tenths of a second, whether
\* canvas.getContext('2d') gives a context, whether canvas.toBlob gives a blob.
Videos == [duration : 0..MaxDuration, context : BOOLEAN, blob : BOOLEAN]

\* video.currentTime += 1: one second, in tenths.
SeekStep == 10

\* Setting video.currentTime seeks; the media element clamps the new position
\* to the end of the media, and fires 'seeked' when the seek is done.
Seek(v, t) == Min(t, v.duration)

InitFrames ==
    /\ InitConversation
    /\ InitApp
    /\ video \in Videos
    /\ currentTime \in 0..video.duration
    /\ frames = <<>>
    /\ fpc = "idle"

\* extractFrames up to addEventListener: frames = [], video.currentTime = 0.
ExtractFrames ==
    /\ fpc = "idle"
    /\ frames' = <<>>
    /\ currentTime' = Seek(video, 0)
    /\ fpc' = "seeking"
    /\ UNCHANGED <<video, reactVars, refVars, playVars, textVars, objVars, procVars, appVars>>

\* if (video.currentTime < video.duration)
MoreFrames(v, t) == t < v.duration

\* The 'seeked' listener onSeeked.  A frame is recorded by the position it
\* was drawn at.
OnSeeked ==
    /\ fpc = "seeking"
    /\ IF ~video.context
       THEN /\ frames' = <<>>
            /\ fpc' = "resolved"
            /\ currentTime' = currentTime
       ELSE /\ frames' = IF video.blob THEN Append(frames, currentTime) ELSE frames
            /\ IF MoreFrames(video, currentTime)
               THEN /\ currentTime' = Seek(video, currentTime + SeekStep)
                    /\ fpc' = "seeking"
               ELSE /\ currentTime' = currentTime
                    /\ fpc' = "resolved"
    /\ UNCHANGED <<video, reactVars, refVars, playVars, textVars, objVars, procVars, appVars>>

NextFrames == ExtractFrames \/ OnSeeked

SpecFrames == InitFrames /\ [][NextFrames]_vars

\* ------------------------------------------------ VideoAnalysis.handleAnalyze
convVars == <<reactVars, refVars, playVars, textVars, objVars, procVars, errors>>

\* The files the user picks from.
AnalysisVideos == {v \in Videos : v.duration \in {0, 10, 25}}

\* handleFileChange with a file; the effect of [videoFile] makes its URL.
\* videoFile is <<>> for null and <<v>> for a file; analysis is 0 for '' and
\* the number of the call that gave the text otherwise.
HandleFileChange(v) ==
    /\ videoFile' = <<v>>
    /\ analysis' = 0
    /\ videoError' = "null"
    /\ UNCHANGED <<prompt, videoIsLoading, progress, apc, calls, frameVars,
                   convVars, ttsVars, langVars>>

\* onChange of the prompt text area.
SetPrompt(x) ==
    /\ prompt' = x
    /\ UNCHANGED <<videoFile, analysis, videoIsLoading, videoError, progress, apc,
                   calls, frameVars, convVars, ttsVars, langVars>>

\* if (!videoFile || !prompt.trim() || !videoRef.current || !canvasRef.current
\* || !videoUrl): the refs are set while the component is mounted, and videoUrl
\* is set whenever videoFile is.
AnalyzeRejected(file, p) == file = <<>> \/ Trim(p) = <<>>

\* A click on the analyze button (disabled={isLoading || !videoFile}):
\* handleAnalyze up to its return.  Setting src loads the file into the
\* hidden video element.  At most max analyses pass the test.
HandleAnalyze(max) ==
    /\ ~videoIsLoading
    /\ videoFile # <<>>
    /\ AnalyzeRejected(videoFile, prompt) \/ calls < max
    /\ IF AnalyzeRejected(videoFile, prompt)
       THEN /\ videoError' = "no_file_prompt"
            /\ UNCHANGED <<analysis, videoIsLoading, progress, apc, frameVars>>
       ELSE /\ videoIsLoading' = TRUE
            /\ videoError' = "null"
            /\ analysis' = 0
            /\ progress' = "preparing"
            /\ video' = videoFile[1]
            /\ currentTime' = 0
            /\ apc' = "loading"
            /\ UNCHANGED <<frames, fpc>>
    /\ UNCHANGED <<videoFile, prompt, calls, convVars, ttsVars, langVars>>

\* The file cannot be loaded: loadeddata is never fired, and handleAnalyze
\* set no other listener.
VideoLoadFails ==
    /\ apc = "loading"
    /\ apc' = "stalled"
    /\ UNCHANGED <<videoFile, prompt, analysis, videoIsLoading, videoError, progress,
                   calls, frameVars, convVars, ttsVars, langVars>>

\* videoRef.current.onloadeddata, up to the await of extractFrames (whose
\* head runs here).
OnLoadedData ==
    /\ apc = "loading"
    /\ apc' = "extracting"
    /\ progress' = "extracting"
    /\ frames' = <<>>
    /\ currentTime' = Seek(video, 0)
    /\ fpc' = "seeking"
    /\ UNCHANGED <<video, videoFile, prompt, analysis, videoIsLoading, videoError,
                   calls, convVars, ttsVars, langVars>>

\* if (frames.length === 0) throw new Error(t('video_error_no_frames'))
NoFrames(fs) == Len(fs) = 0

\* onloadeddata from the resolution of extractFrames to the await of
\* generateContent, or through catch and finally when no frame came back.
FramesExtracted ==
    /\ apc = "extracting"
    /\ fpc = "resolved"
    /\ IF NoFrames(frames)
       THEN /\ videoError' = "no_frames"
            /\ videoIsLoading' = FALSE
            /\ progress' = "none"
            /\ apc' = "idle"
            /\ calls' = calls
       ELSE /\ progress' = "sending"
            /\ calls' = calls + 1
            /\ apc' = "calling"
            /\ UNCHANGED <<videoError, videoIsLoading>>
    /\ UNCHANGED <<videoFile, prompt, analysis, frameVars, convVars, ttsVars,
                   langVars>>

\* finally { setIsLoading(false) } of onloadeddata.
AnalysisFinally(loading) == FALSE

\* generateContent resolves: setAnalysis(response.text), then finally.  The
\* text is recorded by the number of the call that gave it.
AnalysisResolves ==
    /\ apc = "calling"
    /\ analysis' = calls
    /\ videoIsLoading' = AnalysisFinally(videoIsLoading)
    /\ progress' = "none"
    /\ apc' = "idle"
    /\ UNCHANGED <<videoFile, prompt, videoError, calls, frameVars, convVars,
                   ttsVars, langVars>>

\* generateContent rejects: catch, then finally.
AnalysisFails ==
    /\ apc = "calling"
    /\ videoError' = "remote"
    /\ videoIsLoading' = AnalysisFinally(videoIsLoading)
    /\ progress' = "none"
    /\ apc' = "idle"
    /\ UNCHANGED <<videoFile, prompt, analysis, calls, frameVars, convVars,
                   ttsVars, langVars>>

\* The analysis flow with the files V, the prompts X and at most max
\* analyses that pass the test.
NextAnalysis(V, X, max) ==
    \/ \E v \in V : HandleFileChange(v)
    \/ \E x \in X : SetPrompt(x)
    \/ HandleAnalyze(max)
    \/ VideoLoadFails
    \/ OnLoadedData
    \/ OnSeeked
    \/ FramesExtracted
    \/ AnalysisResolves
    \/ AnalysisFails

NextAnalyze == NextAnalysis(AnalysisVideos, InputTexts, MaxAnalyses)

SpecAnalyze == Init /\ [][NextAnalyze]_vars

\* Every media event and the remote call eventually completes or fails: the
\* load of the file ends with loadeddata or with a failure, a seek ends with
\* seeked, the promise of extractFrames resumes onloadeddata once resolved,
\* and generateContent resolves or rejects.  Clicks and key strokes of the
\* user are under no obligation.
FairAnalyze ==
    /\ WF_vars(OnLoadedData \/ VideoLoadFails)
    /\ WF_vars(OnSeeked)
    /\ WF_vars(FramesExtracted)
    /\ WF_vars(AnalysisResolves \/ AnalysisFails)

SpecAnalyzeFair == Init /\ [][NextAnalyze]_vars /\ FairAnalyze

\* ------------------------------------------------------------ TextToSpeech
\* onChange of the text area.
SetText(x) ==
    /\ ttsText' = x
    /\ UNCHANGED <<ttsIsLoading, isPlaying, ttsError, ttsAudioContextRef,
                   audioSourceRef, audioBufferRef, ttsSrc, gpc, ttsCalls,
                   analysisVars, frameVars, convVars, langVars>>

\* stopPlayback, on the sources and audioSourceRef.current: stop() ends a
\* source that is playing and leaves an ended one as it is.
StopPlayback(srcs, ref) ==
    [srcs |-> IF ref # 0 /\ srcs[ref] = "playing"
              THEN [srcs EXCEPT ![ref] = "stopped"] ELSE srcs,
     ref  |-> 0]

\* The test without trim(): only the empty text is rejected.
SpeechRejectedEmpty(t) == t = <<>>

\* if (!text.trim())
SpeechRejected(t) == Trim(t) = <<>>

\* A click on the generate button (disabled={isLoading}): handleGenerateSpeech
\* up to the await of generateContent.  At most max clicks pass the test.
HandleGenerateSpeech(max) ==
    /\ ~ttsIsLoading
    /\ SpeechRejected(ttsText) \/ ttsCalls < max
    /\ IF SpeechRejected(ttsText)
       THEN /\ ttsError' = "empty_text"
            /\ UNCHANGED <<ttsIsLoading, isPlaying, audioSourceRef, audioBufferRef,
                           ttsSrc, gpc, ttsCalls>>
       ELSE /\ LET s == StopPlayback(ttsSrc, audioSourceRef)
               IN  /\ ttsSrc' = s.srcs
                   /\ audioSourceRef' = s.ref
            /\ isPlaying' = FALSE
            /\ ttsIsLoading' = TRUE
            /\ ttsError' = "null"
            /\ audioBufferRef' = 0
            /\ ttsCalls' = ttsCalls + 1
            /\ gpc' = "calling"
    /\ UNCHANGED <<ttsText, ttsAudioContextRef, analysisVars, frameVars, convVars,
                   langVars>>

\* A failed call that keeps the loading flag.
SpeechFinallyKept(loading) == loading

\* finally { setIsLoading(false) } of handleGenerateSpeech.
SpeechFinally(loading) == FALSE

\* generateContent resolves.  With inline audio the context is made if there
\* is none and the handler awaits decodeAudioData; without, it throws.
GenerateResolves(hasAudio) ==
    /\ gpc = "calling"
    /\ IF hasAudio
       THEN /\ ttsAudioContextRef' = "open"
            /\ gpc' = "decoding"
            /\ UNCHANGED <<ttsError, ttsIsLoading>>
       ELSE /\ ttsError' = "no_audio"
            /\ ttsIsLoading' = SpeechFinally(ttsIsLoading)
            /\ gpc' = "idle"
            /\ UNCHANGED ttsAudioContextRef
    /\ UNCHANGED <<ttsText, isPlaying, audioSourceRef, audioBufferRef, ttsSrc,
                   ttsCalls, analysisVars, frameVars, convVars, langVars>>

\* generateContent rejects: catch, then finally.
GenerateFails ==
    /\ gpc = "calling"
    /\ ttsError' = "remote"
    /\ ttsIsLoading' = SpeechFinally(ttsIsLoading)
    /\ gpc' = "idle"
    /\ UNCHANGED <<ttsText, isPlaying, ttsAudioContextRef, audioSourceRef,
                   audioBufferRef, ttsSrc, ttsCalls, analysisVars, frameVars,
                   convVars, langVars>>

\* decodeAudioData resolves: the buffer is stored, recorded by the number of
\* the call that gave it; then finally.
DecodeResolves ==
    /\ gpc = "decoding"
    /\ audioBufferRef' = ttsCalls
    /\ ttsIsLoading' = SpeechFinally(ttsIsLoading)
    /\ gpc' = "idle"
    /\ UNCHANGED <<ttsText, isPlaying, ttsError, ttsAudioContextRef, audioSourceRef,
                   ttsSrc, ttsCalls, analysisVars, frameVars, convVars, langVars>>

\* decodeAudioData rejects: catch, then finally.
DecodeFails ==
    /\ gpc = "decoding"
    /\ ttsError' = "remote"
    /\ ttsIsLoading' = SpeechFinally(ttsIsLoading)
    /\ gpc' = "idle"
    /\ UNCHANGED <<ttsText, isPlaying, ttsAudioContextRef, audioSourceRef,
                   audioBufferRef, ttsSrc, ttsCalls, analysisVars, frameVars,
                   convVars, langVars>>

\* A click on the play button (disabled={!audioBufferRef.current || isLoading}):
\* handlePlayPause.  The new source is the first handle of P not used yet.
HandlePlayPause(P) ==
    /\ audioBufferRef # 0
    /\ ~ttsIsLoading
    /\ IF isPlaying
       THEN /\ LET s == StopPlayback(ttsSrc, audioSourceRef)
               IN  /\ ttsSrc' = s.srcs
                   /\ audioSourceRef' = s.ref
            /\ isPlaying' = FALSE
       ELSE IF audioBufferRef # 0 /\ ttsAudioContextRef # "null"
       THEN \E i \in P :
              /\ ttsSrc[i] = "none"
              /\ \A j \in P : j < i => ttsSrc[j] # "none"
              /\ ttsSrc' = [ttsSrc EXCEPT ![i] = "playing"]
              /\ audioSourceRef' = i
              /\ isPlaying' = TRUE
       ELSE UNCHANGED <<ttsSrc, audioSourceRef, isPlaying>>
    /\ UNCHANGED <<ttsText, ttsIsLoading, ttsError, ttsAudioContextRef,
                   audioBufferRef, gpc, ttsCalls, analysisVars, frameVars, convVars,
                   langVars>>

\* source.onended = () => setIsPlaying(false): the ended event of a source
\* whose buffer has played to its end, or on which stop() was called.
SpeechOnEnded(i) ==
    /\ ttsSrc[i] \in {"playing", "stopped"}
    /\ ttsSrc' = [ttsSrc EXCEPT ![i] = "ended"]
    /\ isPlaying' = FALSE
    /\ UNCHANGED <<ttsText, ttsIsLoading, ttsError, ttsAudioContextRef,
                   audioSourceRef, audioBufferRef, gpc, ttsCalls, analysisVars,
                   frameVars, convVars, langVars>>

\* The synthesis flow with the texts X, at most max calls of generateContent
\* and the sources P.
NextSynthesis(X, max, P) ==
    \/ \E x \in X : SetText(x)
    \/ HandleGenerateSpeech(max)
    \/ \E b \in BOOLEAN : GenerateResolves(b)
    \/ GenerateFails
    \/ DecodeResolves
    \/ DecodeFails
    \/ HandlePlayPause(P)
    \/ \E i \in P : SpeechOnEnded(i)

NextSpeech == NextSynthesis(InputTexts, MaxGenerates, PlayHandles)

SpecSpeech == Init /\ [][NextSpeech]_vars

\* Both flows that validate their input, with one file and one call each.
InputVideos == {v \in Videos : v.duration = 10 /\ v.context /\ v.blob}

NextInput ==
    \/ NextAnalysis(InputVideos, InputTexts, 1)
    \/ NextSynthesis(InputTexts, 1, {1})

SpecInput == Init /\ [][NextInput]_vars

\* Both flows that call generateContent, with one file, two texts, two calls
\* each and one source.
RemoteTexts == {<<>>, <<"a">>}

NextRemote ==
    \/ NextAnalysis(InputVideos, RemoteTexts, MaxAnalyses)
    \/ NextSynthesis(RemoteTexts, MaxGenerates, {1})

SpecRemote == Init /\ [][NextRemote]_vars


\* ================================================================ claims
\* The step in which the handler of message i schedules its chunk.
Scheduled(i) ==
    /\ i \in 1..Len(msgs)
    /\ msgs[i].pc = "decode"
    /\ msgs'[i].pc = "done"

\* The step in which the handler of an interrupted message ends.
InterruptHandled ==
    \E j \in 1..Len(msgs') :
        /\ msgs'[j].interrupted
        /\ msgs'[j].pc = "done"
        /\ (j > Len(msgs) \/ msgs[j].pc = "decode")

\* A source that is started and neither stopped nor ended, on a running context.
Audible(i) == src[i].state = "playing" /\ ctxOut[src[i].ctx] = "running"

\* C1: a chunk scheduled after another one, with no interruption and no new
\* session in between, starts no earlier than the other one starts and no
\* earlier than the other one ends.
C1_NoOverlap ==
    [][\A i \in Handles :
         (Scheduled(i) /\ last # <<>>)
            => (src'[i].start >= last[1] /\ src'[i].start >= last[2])]_vars

\* Three chunks were scheduled with no interruption: the second after a gap,
\* at the clock, the third right at the end of the second, ahead of the clock.
C1_Witness ==
    \E i, j, k \in Handles :
        /\ src[i].state # "none" /\ src[j].state # "none" /\ src[k].state = "playing"
        /\ src[j].start > src[i].end
        /\ src[k].start = src[j].end
        /\ src[k].start > clock[src[k].ctx]
        /\ last = <<src[k].start, src[k].end>>
        /\ \A n \in 1..Len(msgs) : ~msgs[n].interrupted

\* C2: chunks are scheduled in arrival order: of two audio messages, the one
\* delivered first gets a start time no later than the other's.
C2_ArrivalOrder ==
    \A i, j \in Handles :
        (i < j /\ src[i].state # "none" /\ src[j].state # "none")
            => src[i].start <= src[j].start

\* C3: when the handler of an interrupted message ends, the active set is
\* empty and the cursor is zero, and the next chunk scheduled starts at the
\* output context's current time.
C3_InterruptResets ==
    [][/\ fresh' => (audioSourcesRef' = {} /\ nextStartTimeRef' = 0)
       /\ \A i \in Handles :
            (Scheduled(i) /\ fresh) => src'[i].start = clock[outputAudioContextRef]]_vars

\* A chunk was playing up to a later time when the interrupt stopped it, and
\* the chunk scheduled next is playing from the clock reading, before that time.
C3_Witness ==
    \E i, j, k \in Handles :
        /\ i < j /\ j < k /\ k <= Len(msgs)
        /\ msgs[j].interrupted /\ msgs[j].pc = "done"
        /\ src[i].state = "stopped"
        /\ src[k].state = "playing"
        /\ src[k].start > 0 /\ src[k].start < src[i].end

\* C4: once an interrupted message is handled, no chunk of a message that
\* arrived before it (or of the message itself) is playing or scheduled.
C4_InterruptDiscards ==
    \A j \in 1..Len(msgs) :
        (msgs[j].interrupted /\ msgs[j].pc = "done")
            => \A i \in 1..j : ~Audible(i)

\* C5 as claimed: no step assigns the cursor a smaller value.
C5_NeverBackward == [][nextStartTimeRef' >= nextStartTimeRef]_vars

\* C5 amended: the cursor gets a smaller value only when it is reset to zero,
\* by the handling of an interrupted message or by startConversation; a step
\* of stopConversation leaves it unchanged.
C5_BackwardOnlyByReset ==
    [][/\ nextStartTimeRef' < nextStartTimeRef
            => /\ nextStartTimeRef' = 0
               /\ \/ InterruptHandled
                  \/ \E s \in Sessions : startPc[s] = "awaitMic" /\ startPc'[s] = "done"
       /\ stops' # stops => nextStartTimeRef' = nextStartTimeRef]_vars

\* The second startConversation has reset a cursor that a chunk of the first
\* conversation had advanced, with no interruption anywhere.
C5_Witness ==
    /\ nextStartTimeRef = 0
    /\ startPc[2] = "done"
    /\ \E i \in Handles : src[i].state # "none" /\ src[i].end > 0 /\ src[i].ctx = 1
    /\ \A n \in 1..Len(msgs) : ~msgs[n].interrupted /\ msgs[n].pc = "done"

Boundaries(fs) == {k \in 1..Len(fs) : k = 1 \/ fs[k].author # fs[k-1].author}

\* The number of the run fragment k lies in.
RunOf(fs, k) == Cardinality({b \in Boundaries(fs) : b <= k})

\* The texts of the fragments of run n among the first k, concatenated.
RECURSIVE RunText(_, _, _)
RunText(fs, n, k) ==
    IF k = 0 THEN <<>>
    ELSE RunText(fs, n, k - 1) \o (IF RunOf(fs, k) = n THEN fs[k].text ELSE <<>>)

AuthorsOf(fs) == [k \in 1..Len(fs) |-> fs[k].author]

\* C7: with no turnComplete handled since startConversation, the transcript
\* has one utterance per maximal run of fragments of one speaker, in order,
\* with the run's speaker and the concatenation of the run's texts; the
\* fragments user, user, model, user give the utterances user, model, user.
C7_RunLengthMerge ==
    turnDone = "never" =>
        /\ Len(transcriptionsRef) = Cardinality(Boundaries(frags))
        /\ \A k \in 1..Len(frags) :
              /\ transcriptionsRef[RunOf(frags, k)].author = frags[k].author
              /\ transcriptionsRef[RunOf(frags, k)].text
                    = RunText(frags, RunOf(frags, k), Len(frags))
        /\ AuthorsOf(frags) = <<"user", "user", "model", "user">>
              => AuthorsOf(transcriptionsRef) = <<"user", "model", "user">>

\* The fragments user "a", user "b", model, user have been assembled.
C7_Witness ==
    /\ turnDone = "never"
    /\ AuthorsOf(frags) = <<"user", "user", "model", "user">>
    /\ Len(transcriptionsRef) = 3
    /\ transcriptionsRef[1].text = <<"a", "b">>

\* C8: a fragment that follows a turnComplete goes to a new utterance, also
\* when the fragment before it has the same speaker; with no turnComplete in
\* between, a fragment of the same speaker as the one before it goes to the
\* utterance that one went to.
C8_TurnCompleteSplits ==
    \A k \in 1..Len(frags) :
        /\ frags[k].utt \in 1..Len(transcriptionsRef)
        /\ transcriptionsRef[frags[k].utt].author = frags[k].author
        /\ k > 1 =>
             /\ frags[k].afterTurn => frags[k].utt = frags[k-1].utt + 1
             /\ (~frags[k].afterTurn /\ frags[k].author = frags[k-1].author)
                   => frags[k].utt = frags[k-1].utt

\* Three user fragments with a turnComplete after the first: the second began
\* a new utterance and the third was appended to it.
C8_Witness ==
    /\ Len(frags) = 3
    /\ AuthorsOf(frags) = <<"user", "user", "user">>
    /\ frags[2].afterTurn /\ ~frags[3].afterTurn
    /\ frags[2].utt = 2 /\ frags[3].utt = 2
    /\ Len(transcriptionsRef[2].text) = 2

IsPrefix(a, b) == Len(a) <= Len(b) /\ SubSeq(b, 1, Len(a)) = a

\* b keeps the utterances of a, their authors and their texts, but for a
\* suffix added to the text of the last utterance of a.
AppendOnly(a, b) ==
    /\ Len(b) >= Len(a)
    /\ \A n \in 1..Len(a) :
          /\ b[n].author = a[n].author
          /\ IsPrefix(a[n].text, b[n].text)
          /\ n < Len(a) => b[n].text = a[n].text

\* The head of startConversation runs in this step.
SessionReset == \E s \in Sessions : startPc[s] = "idle" /\ startPc'[s] = "awaitMic"

\* C9: a step other than the head of startConversation only appends to the
\* transcript (the ref and the React state), and a step of stopConversation
\* leaves it unchanged.
C9_AppendOnly ==
    [][/\ ~SessionReset =>
             /\ AppendOnly(transcriptionsRef, transcriptionsRef')
             /\ AppendOnly(transcriptions, transcriptions')
       /\ stops' # stops =>
             /\ transcriptionsRef' = transcriptionsRef
             /\ transcriptions' = transcriptions]_vars

\* stopConversation has run to its end and the two utterances assembled
\* before, the first from two fragments, are still there.
C9_Witness ==
    /\ stops[1].pc = "done"
    /\ Len(transcriptionsRef) = 2
    /\ Len(transcriptionsRef[1].text) = 2
    /\ transcriptions = transcriptionsRef

\* ---------------------------------------------------------- frame sampler
\* C10: a video of 3.4 s, drawn and encoded without failure, gives the four
\* frames of t = 0, 1, 2, 3 when extractFrames resolves.
C10_FourFrames ==
    (fpc = "resolved" /\ video.duration = 34 /\ video.context /\ video.blob)
        => frames = <<0, 10, 20, 30>>

\* C11: extractFrames resolves with no frame for a video of zero duration and
\* for a video that cannot be drawn or encoded; and when it resolves with no
\* frame, handleAnalyze ends with the no-frames error, the loading flag off,
\* and no call of generateContent.
C11_EmptyIsHardError ==
    [][/\ (fpc' = "resolved" /\ (video'.duration = 0 \/ ~video'.context \/ ~video'.blob))
            => frames' = <<>>
       /\ (apc = "extracting" /\ apc' # "extracting" /\ frames = <<>>)
            => (videoError' = "no_frames" /\ ~videoIsLoading' /\ calls' = calls)]_vars

\* ------------------------------------------------------- input validation
\* The step in which handleGenerateSpeech, or handleAnalyze, sets its
\* validation error.
SpeechRejection == ttsError # "empty_text" /\ ttsError' = "empty_text"

AnalysisRejection == videoError # "no_file_prompt" /\ videoError' = "no_file_prompt"

\* C12: no call of generateContent is started from a text (a prompt) that is
\* empty or white space only, or without a file; the validation error is set
\* for such an input only; and the step that sets it leaves the loading flag,
\* the playback, the stored audio buffer and analysis, and the count of remote
\* calls as they were.
C12_RejectedBeforeCall ==
    [][/\ ttsCalls' # ttsCalls => Trim(ttsText) # <<>>
       /\ (apc # "loading" /\ apc' = "loading")
            => (videoFile # <<>> /\ Trim(prompt) # <<>>)
       /\ SpeechRejection =>
            /\ Trim(ttsText) = <<>>
            /\ UNCHANGED <<ttsIsLoading, isPlaying, audioSourceRef, ttsSrc,
                           audioBufferRef, ttsCalls, gpc>>
       /\ AnalysisRejection =>
            /\ (videoFile = <<>> \/ Trim(prompt) = <<>>)
            /\ UNCHANGED <<videoIsLoading, analysis, calls, apc, frameVars>>]_vars

\* Both flows have rejected an input of white space while an earlier result
\* was there: the audio buffer of call 1, playing, and the analysis of call 1.
C12_Witness ==
    /\ ttsError = "empty_text" /\ ttsText = <<" ", " ">>
    /\ audioBufferRef = 1 /\ isPlaying /\ ttsSrc[1] = "playing" /\ ttsCalls = 1
    /\ videoError = "no_file_prompt" /\ prompt = <<" ">>
    /\ analysis = 1 /\ calls = 1 /\ ~videoIsLoading /\ ~ttsIsLoading

\* ------------------------------------------------------------ cancellation
\* startConversation has been called once only.
OneSession == \A s \in Sessions : s > 1 => startPc[s] = "idle"

\* C13: once a stopConversation has run to its end, and as long as
\* startConversation is not called again, no audio context is running, no
\* remote session is connecting or open, the active set is empty, and no step
\* makes a source or adds one to the active set.
C13_StopCancels ==
    [][\A p \in StopIds :
         (stops'[p].pc = "done" /\ OneSession')
            => /\ audioSourcesRef' = {}
               /\ \A s \in Sessions :
                     /\ ctxIn'[s] # "running"
                     /\ ctxOut'[s] # "running"
                     /\ sess'[s] \notin {"connecting", "open"}
               /\ stops[p].pc = "done"
                     => \A i \in Handles :
                           src[i].state = "none" => src'[i].state = "none"]_vars

\* ------------------------------------------------------------- life cycle
\* The remote sessions that are open, and the startConversation calls of
\* which an audio context is running.
OpenSessions == {s \in Sessions : sess[s] = "open"}

OpenContexts == {s \in Sessions : ctxIn[s] = "running" \/ ctxOut[s] = "running"}

\* C14: at most one remote session is open and at most one startConversation
\* call has running audio contexts.
C14_OneSession ==
    /\ Cardinality(OpenSessions) <= 1
    /\ Cardinality(OpenContexts) <= 1

\* C15: when getUserMedia (or the making of a context) fails, the handling
\* ends with the microphone error as the status, isRecording false, and no
\* context and no remote session made by that startConversation call.
C15_MicErrorShown ==
    [][\A s \in Sessions :
         (startPc[s] = "awaitMic" /\ startPc'[s] = "failed")
            => /\ status' = "mic_error"
               /\ ~isRecording'
               /\ sess'[s] = "none"
               /\ ctxIn'[s] = "none" /\ ctxOut'[s] = "none"]_vars

\* C17: the step that handles onerror, with the stopConversation it calls,
\* ends with the error as the status and isRecording false, and the later
\* steps of that stopConversation leave the status as it is.
C17_ErrorShown ==
    [][/\ \A s \in Sessions :
            (s \notin errors /\ s \in errors') => (status' = "error" /\ ~isRecording')
       /\ (stops' # stops /\ errors' = errors /\ isRecording' = isRecording
             /\ language' = language)
            => status' = status]_vars

\* ------------------------------------------------------------ remote calls
\* The step in which a call of handleGenerateSpeech, or of handleAnalyze, that
\* reached generateContent ends in its catch block.
SpeechFailure ==
    gpc \in {"calling", "decoding"} /\ gpc' = "idle" /\ ttsError' # "null"

AnalysisFailure == apc = "calling" /\ apc' = "idle" /\ videoError' # "null"

\* C16: a call of generateContent that fails, or gives no audio, ends with the
\* error set, the loading flag off and no audio buffer (no analysis) stored;
\* as long as that error is shown nothing is stored and nothing is loading;
\* and generateContent is called again only after a new click on the button.
C16_FailureIsTerminal ==
    [][/\ SpeechFailure
            => /\ ttsError' \in {"remote", "no_audio"}
               /\ ~ttsIsLoading' /\ audioBufferRef' = 0 /\ ttsCalls' = ttsCalls
       /\ AnalysisFailure
            => /\ videoError' = "remote"
               /\ ~videoIsLoading' /\ analysis' = 0 /\ calls' = calls
       /\ ttsError' \in {"remote", "no_audio"}
            => (gpc' = "idle" /\ audioBufferRef' = 0 /\ ~ttsIsLoading')
       /\ videoError' = "remote"
            => (apc' = "idle" /\ analysis' = 0 /\ ~videoIsLoading')
       /\ ttsCalls' # ttsCalls
            => (gpc = "idle" /\ ~ttsIsLoading /\ ttsCalls' = ttsCalls + 1)
       /\ (apc' = "loading" /\ apc # "loading") => ~videoIsLoading
       /\ calls' # calls => (apc = "extracting" /\ calls' = calls + 1)]_vars

\* The second call of each flow has failed (synthesis: no audio in the
\* response; analysis: the call rejected) after a first call that had given a
\* result, and each flow is idle again with nothing stored.
C16_Witness ==
    /\ ttsCalls = 2 /\ ttsError = "no_audio" /\ gpc = "idle"
    /\ audioBufferRef = 0 /\ ~ttsIsLoading
    /\ ttsSrc[1] \in {"stopped", "ended"}
    /\ calls = 2 /\ videoError = "remote" /\ apc = "idle"
    /\ analysis = 0 /\ ~videoIsLoading

\* --------------------------------------------------------------- language
\* C18: the language starts as the default language with its direction; it is
\* always en or ar; the direction is rtl exactly when the language is ar, and
\* ltr otherwise; and a step that changes the language is a click on a
\* language button, which calls setLanguage with the language of the button.
C18_LanguageAndDir ==
    /\ language = DefaultLanguage
    /\ dir = "rtl"
    /\ [][/\ language' \in Languages
          /\ dir' \in {"rtl", "ltr"}
          /\ dir' = "rtl" <=> language' = "ar"
          /\ language' # language
               => \E l \in Languages, p \in 1..LifeStops :
                     l = language' /\ SetLanguage(l, p)]_vars

\* English was chosen while a conversation was recording on an open session:
\* the direction is ltr and a stopConversation is closing the input context.
C18_Witness ==
    /\ language = "en" /\ dir = "ltr"
    /\ ~isRecording /\ status = "idle"
    /\ startPc[1] = "done" /\ sess[1] = "open"
    /\ stops[1].pc = "closeIn"

\* ------------------------------------------------------------ stop and start
\* C19: with the button alone, calls of startConversation and stopConversation
\* alternate, so the startConversation calls after stop p are those numbered
\* above p.  A step in which stop p resumes after one of its awaits leaves the
\* contexts, the remote session and the sources of every such call as they
\* are, and leaves sessionPromiseRef on such a call's session.
C19_StopSparesNewSession ==
    [][\A p \in StopIds, s \in Sessions :
         (s > p /\ stops[p].pc \in {"closeIn", "closeOut", "session"}
                /\ stops'[p] # stops[p])
            => /\ ctxIn'[s] = ctxIn[s]
               /\ ctxOut'[s] = ctxOut[s]
               /\ sess'[s] = sess[s]
               /\ sessionPromiseRef = s => sessionPromiseRef' = s
               /\ \A i \in Handles : src[i].ctx = s => src'[i] = src[i]]_vars

\* --------------------------------------------------------- speech playback
\* The sources of TextToSpeech that were started and have neither been
\* stopped nor ended.
PlayingSources == {i \in PlayHandles : ttsSrc[i] = "playing"}

\* C20: at most one source is playing, and isPlaying is true whenever one is.
C20_OnePlayback ==
    /\ Cardinality(PlayingSources) <= 1
    /\ PlayingSources # {} => isPlaying

\* ------------------------------------------------- the end of an analysis
\* An analysis is over: isLoading is false, with a text or an error.
AnalysisOver == ~videoIsLoading /\ (analysis # 0 \/ videoError # "null")

\* C21: an analysis that passed the test of handleAnalyze (isLoading is
\* true) eventually leaves the loading state with an analysis text or an
\* error, when every media event and the remote call completes or fails.
C21_LoadingEnds == videoIsLoading ~> AnalysisOver

====
